---- MODULE Spec2Model ----
(***************************************************************************)
(* Model of helper_funcs_glob/src/edge_check.py: edge_check(trajectory,    *)
(* bound1, bound2, l_veh_real, w_veh_real), the minimum distance between   *)
(* the four vehicle corners and the track boundary points for every        *)
(* trajectory point.                                                       *)
(*                                                                         *)
(* Numbers.  The inputs are integers; a heading psi is a number of         *)
(* quarter turns (psi * pi/2 radians), where cos and sin are exact.        *)
(* Every computed length is held in half units (twice the real value), so  *)
(* that w/2 and l/2 are exact, and a distance d is held as the integer     *)
(* (2d)^2: np.sqrt is strictly increasing on the non-negative reals and    *)
(* sqrt(0) = 0, so minima, comparisons and zero tests are those of the     *)
(* distances themselves.  A negative radicand, for which np.sqrt returns   *)
(* nan, stays negative.                                                    *)
(*                                                                         *)
(* Arrays are 1-based sequences: numpy's trajectory[i, 3] is               *)
(* trajectory[i + 1][4] here.                                              *)
(***************************************************************************)
EXTENDS Integers, Sequences, FiniteSets

\* ------------------------------------------------------------------ bounds

\* longest trajectory drawn
MaxTraj == 2

\* most boundary points drawn, bound1 and bound2 together
MaxCloud == 2

\* the poses <<x, y, psi>> the samples of a trajectory are drawn from
Poses == {<<0, 0, 0>>, <<0, 0, 1>>, <<1, -1, 3>>}

\* the poses the sample of a one-sample call is drawn from: two positions,
\* every quarter turn
OnePoses == {<<p[1], p[2], h>> : p \in {<<0, 0>>, <<1, -1>>}, h \in 0 .. 3}

\* the first field of a sample (the arc length), which edge_check never reads
SVals == {3}

\* the points a boundary is drawn from
BPts == {<<0, 5>>, <<1, 1>>, <<-2, -1>>}

\* the points a boundary of a one-sample call is drawn from
OnePts == BPts \cup {<<3, -2>>}

\* the vehicle lengths and widths drawn (zero and negative included)
Dims == {-1, 0, 2, 4}

\* the sizes <<length, width>> drawn: a vehicle at least as long as wide
Sizes == {s \in Dims \X Dims : s[1] >= s[2]}

\* the sizes of a one-sample call
OneSizes == Dims \X Dims

\* the sizes of a parallel run
ParSizes == {<<4, 2>>, <<-1, -1>>}

\* the numbers of columns of the trajectory array
NCols == {3, 4}

\* the sequences over S of length at most n
SeqUpTo(S, n) == UNION {[1 .. k -> S] : k \in 0 .. n}

\* the rows of a trajectory array with nc columns
Samples(nc, poses) ==
  IF nc = 3
  THEN {<<s, p[1], p[2]>> : s \in SVals, p \in poses}
  ELSE {<<s, p[1], p[2], p[3]>> : s \in SVals, p \in poses}

\* ------------------------------------------------------------------- state

VARIABLES
  trajectory,   \* argument: the rows [s, x, y, psi]
  ncols,        \* trajectory.shape[1]
  bound1,       \* argument: the points [x, y] of one boundary
  bound2,       \* argument: the points [x, y] of the other
  l_veh_real,   \* argument
  w_veh_real,   \* argument
  pc,           \* "call", "loop", "returned", "raised"; "par" in the parallel run
  err,          \* the exception raised, "" when none
  bounds,       \* line 35
  fl, fr, rl, rr,       \* lines 38-41, half units
  min_dists,    \* line 44
  mat_rot,      \* line 45, the one buffer of the sequential loop
  i,            \* iterations of the loop completed
  fl_, fr_, rl_, rr_,   \* lines 54-57 of the last iteration, half units
  wpc,          \* parallel run: each worker's position
  wrot          \* parallel run: each worker's own rotation matrix

vars == <<trajectory, ncols, bound1, bound2, l_veh_real, w_veh_real, pc, err,
          bounds, fl, fr, rl, rr, min_dists, mat_rot, i, fl_, fr_, rl_, rr_,
          wpc, wrot>>

args == <<trajectory, ncols, bound1, bound2, l_veh_real, w_veh_real>>

\* ----------------------------------------------------------------- helpers

\* math.cos at psi quarter turns
Cos(psi) == CASE psi % 4 = 0 -> 1 [] psi % 4 = 1 -> 0 [] psi % 4 = 2 -> -1 [] OTHER -> 0

\* math.sin at psi quarter turns
Sin(psi) == CASE psi % 4 = 0 -> 0 [] psi % 4 = 1 -> 1 [] psi % 4 = 2 -> 0 [] OTHER -> -1

\* mutant: bound2 is left out
vstack_FirstOnly(b1, b2) == b1

\* mutant: bound1 is stacked twice
vstack_Twice(b1, b2) == b1 \o b1

\* np.vstack((b1, b2))
vstack(b1, b2) == b1 \o b2

\* mutants: the length is not halved; a sign is lost
Fl_NotHalved(l, w) == <<-w, 2 * l>>
Rl_SignSlip(l, w) == <<-w, l>>
Rr_SignSlip(l, w) == <<w, l>>

\* the static vehicle edge positions, in half units
Fl(l, w) == <<-w, l>>
Fr(l, w) == <<w, l>>
Rl(l, w) == <<-w, -l>>
Rr(l, w) == <<w, -l>>

\* np.zeros(n) and np.zeros((2, 2))
zeros(n) == [k \in 1 .. n |-> 0]
zeros22 == <<<<0, 0>>, <<0, 0>>>>

\* mutant: cos and sin are exchanged
MatRotSet_CosSinSwapped(mat, psi) ==
  [mat EXCEPT ![1][1] = Sin(psi), ![1][2] = -Cos(psi),
              ![2][1] = Cos(psi), ![2][2] = Sin(psi)]

\* mutant: an entry that is zero is not written, the buffer being taken for
\* the zeros of line 45
MatRotSet_SkipZeros(mat, psi) ==
  [mat EXCEPT ![1][1] = IF Cos(psi) = 0 THEN @ ELSE Cos(psi),
              ![1][2] = IF Sin(psi) = 0 THEN @ ELSE -Sin(psi),
              ![2][1] = IF Sin(psi) = 0 THEN @ ELSE Sin(psi),
              ![2][2] = IF Cos(psi) = 0 THEN @ ELSE Cos(psi)]

\* the four assignments to the rotation buffer
MatRotSet(mat, psi) ==
  [mat EXCEPT ![1][1] = Cos(psi), ![1][2] = -Sin(psi),
              ![2][1] = Sin(psi), ![2][2] = Cos(psi)]

\* np.matmul of a 2x2 matrix and a vector
matmul(m, v) == <<m[1][1] * v[1] + m[1][2] * v[2], m[2][1] * v[1] + m[2][2] * v[2]>>

\* mutant: the slice is trajectory[i, 0:2]
Slice02(row) == <<2 * row[1], 2 * row[2]>>

\* trajectory[i, 1:3], in half units
Slice13(row) == <<2 * row[2], 2 * row[3]>>

\* trajectory[i, 1:3] + np.matmul(mat_rot, c)
EdgePos(row, mat, c) ==
  <<Slice13(row)[1] + matmul(mat, c)[1], Slice13(row)[2] + matmul(mat, c)[2]>>

\* mutant: the second difference is not squared
Radicand_NoSquare(b, p) == (2 * b[1] - p[1]) * (2 * b[1] - p[1]) + (2 * b[2] - p[2])

\* np.power(bounds[k, 0] - p[0], 2) + np.power(bounds[k, 1] - p[1], 2)
Radicand(b, p) == (2 * b[1] - p[1]) * (2 * b[1] - p[1]) + (2 * b[2] - p[2]) * (2 * b[2] - p[2])

\* the array of distances of every boundary point to the edge position p
mindist(bnds, p) == [k \in 1 .. Len(bnds) |-> Radicand(bnds[k], p)]

\* the values of a tuple of arrays
Values(arrs) == {arrs[a][k] : a \in 1 .. Len(arrs), k \in 1 .. Len(arrs[1])}

\* np.amin raises ValueError on an array without elements
AminRaises(arrs) == Len(arrs[1]) = 0

\* np.amin of a tuple of arrays of one length
amin(arrs) ==
  LET Least(V) == CHOOSE m \in V : \A v \in V : m <= v
  IN  Least(Values(arrs))

\* mutant: the output is filled from its end
StoreAt_Reversed(arr, k, v) == [arr EXCEPT ![Len(arr) + 1 - k] = v]

\* min_dists[k] = v
StoreAt(arr, k, v) == [arr EXCEPT ![k] = v]

\* whether trajectory[i, 3] is out of bounds
IndexRaises(nc) == nc < 4

\* lines 48-63 of one iteration: the buffer after lines 48-51, the four edge
\* positions and the four arrays of distances to the boundary points
Iteration(row, mat, bnds, cfl, cfr, crl, crr) ==
  LET Dists(m, pfl, pfr, prl, prr) ==
        [mat |-> m, pfl |-> pfl, pfr |-> pfr, prl |-> prl, prr |-> prr,
         ds |-> <<mindist(bnds, pfl), mindist(bnds, pfr),
                  mindist(bnds, prl), mindist(bnds, prr)>>]
      Edges(m) ==
        Dists(m, EdgePos(row, m, cfl), EdgePos(row, m, cfr),
                 EdgePos(row, m, crl), EdgePos(row, m, crr))
  IN  Edges(MatRotSet(mat, row[4]))

\* the loop of lines 47-66 from its iteration k on, as the sequential
\* interpreter runs it: st holds the buffer, the output and the exception
RECURSIVE RunLoop(_, _, _, _, _, _, _, _, _)
RunLoop(traj, nc, bnds, cfl, cfr, crl, crr, st, k) ==
  IF k > Len(traj) THEN st
  ELSE IF IndexRaises(nc) THEN [st EXCEPT !.err = "IndexError"]
  ELSE LET Body(it) ==
             IF AminRaises(it.ds)
             THEN [st EXCEPT !.err = "ValueError", !.mat = it.mat]
             ELSE RunLoop(traj, nc, bnds, cfl, cfr, crl, crr,
                          [mat |-> it.mat, out |-> StoreAt(st.out, k, amin(it.ds)),
                           err |-> ""], k + 1)
       IN  Body(Iteration(traj[k], st.mat, bnds, cfl, cfr, crl, crr))

\* the whole call: .err the exception raised ("" when it returns), .out the
\* array returned
edge_check(traj, nc, b1, b2, l, w) ==
  RunLoop(traj, nc, vstack(b1, b2), Fl(l, w), Fr(l, w), Rl(l, w), Rr(l, w),
          [mat |-> zeros22, out |-> zeros(Len(traj)), err |-> ""], 1)

\* ------------------------------------------------------------------- steps

\* a call: its arguments drawn, nothing run yet
InitFrom(poses, pts, n, sizes) ==
  /\ ncols \in NCols
  /\ trajectory \in SeqUpTo(Samples(ncols, poses), n)
  /\ bound1 \in SeqUpTo(pts, MaxCloud)
  /\ bound2 \in SeqUpTo(pts, MaxCloud - Len(bound1))
  /\ \E s \in sizes : l_veh_real = s[1] /\ w_veh_real = s[2]
  /\ pc = "call"
  /\ err = ""
  /\ bounds = <<>>
  /\ fl = <<>> /\ fr = <<>> /\ rl = <<>> /\ rr = <<>>
  /\ min_dists = <<>>
  /\ mat_rot = <<>>
  /\ i = 0
  /\ fl_ = <<>> /\ fr_ = <<>> /\ rl_ = <<>> /\ rr_ = <<>>
  /\ wpc = <<>>
  /\ wrot = <<>>

Init == InitFrom(Poses, BPts, MaxTraj, Sizes)

\* lines 35-45
Setup ==
  /\ pc = "call"
  /\ bounds' = vstack(bound1, bound2)
  /\ fl' = Fl(l_veh_real, w_veh_real)
  /\ fr' = Fr(l_veh_real, w_veh_real)
  /\ rl' = Rl(l_veh_real, w_veh_real)
  /\ rr' = Rr(l_veh_real, w_veh_real)
  /\ min_dists' = zeros(Len(trajectory))
  /\ mat_rot' = zeros22
  /\ pc' = "loop"
  /\ UNCHANGED <<args, err, i, fl_, fr_, rl_, rr_, wpc, wrot>>

\* line 48 of an iteration over an array with fewer than four columns
RaiseIndexError ==
  /\ pc = "loop"
  /\ i < Len(trajectory)
  /\ IndexRaises(ncols)
  /\ pc' = "raised"
  /\ err' = "IndexError"
  /\ UNCHANGED <<args, bounds, fl, fr, rl, rr, min_dists, mat_rot, i,
                 fl_, fr_, rl_, rr_, wpc, wrot>>

\* lines 48-66 of an iteration whose np.amin raises
RaiseValueError ==
  /\ pc = "loop"
  /\ i < Len(trajectory)
  /\ ~IndexRaises(ncols)
  /\ \E it \in {Iteration(trajectory[i + 1], mat_rot, bounds, fl, fr, rl, rr)} :
         /\ AminRaises(it.ds)
         /\ mat_rot' = it.mat
         /\ fl_' = it.pfl /\ fr_' = it.pfr /\ rl_' = it.prl /\ rr_' = it.prr
  /\ pc' = "raised"
  /\ err' = "ValueError"
  /\ UNCHANGED <<args, bounds, fl, fr, rl, rr, min_dists, i, wpc, wrot>>

\* lines 48-66 of one iteration
LoopBody ==
  /\ pc = "loop"
  /\ i < Len(trajectory)
  /\ ~IndexRaises(ncols)
  /\ \E it \in {Iteration(trajectory[i + 1], mat_rot, bounds, fl, fr, rl, rr)} :
         /\ ~AminRaises(it.ds)
         /\ mat_rot' = it.mat
         /\ fl_' = it.pfl /\ fr_' = it.pfr /\ rl_' = it.prl /\ rr_' = it.prr
         /\ min_dists' = StoreAt(min_dists, i + 1, amin(it.ds))
  /\ i' = i + 1
  /\ UNCHANGED <<args, pc, err, bounds, fl, fr, rl, rr, wpc, wrot>>

\* line 68
Return ==
  /\ pc = "loop"
  /\ i = Len(trajectory)
  /\ pc' = "returned"
  /\ UNCHANGED <<args, err, bounds, fl, fr, rl, rr, min_dists, mat_rot, i,
                 fl_, fr_, rl_, rr_, wpc, wrot>>

Next == Setup \/ RaiseIndexError \/ RaiseValueError \/ LoopBody \/ Return

Spec == Init /\ [][Next]_vars

\* the calls with at most one sample, over more poses, points and sizes
InitOne == InitFrom(OnePoses, OnePts, 1, OneSizes)

SpecOne == InitOne /\ [][Next]_vars

\* ------------------------------------------- the loop, one worker per sample

InitPar == InitFrom(Poses, BPts, MaxTraj, ParSizes)

\* lines 35-45, then one worker per sample index, each with a buffer of its own
ParSetup ==
  /\ pc = "call"
  /\ bounds' = vstack(bound1, bound2)
  /\ fl' = Fl(l_veh_real, w_veh_real)
  /\ fr' = Fr(l_veh_real, w_veh_real)
  /\ rl' = Rl(l_veh_real, w_veh_real)
  /\ rr' = Rr(l_veh_real, w_veh_real)
  /\ min_dists' = zeros(Len(trajectory))
  /\ mat_rot' = zeros22
  /\ wpc' = [k \in 1 .. Len(trajectory) |-> "rot"]
  /\ wrot' = [k \in 1 .. Len(trajectory) |-> zeros22]
  /\ pc' = "par"
  /\ UNCHANGED <<args, err, i, fl_, fr_, rl_, rr_>>

\* lines 48-51 of iteration k, on worker k's buffer
ParRot(k) ==
  /\ pc = "par"
  /\ wpc[k] = "rot"
  /\ ~IndexRaises(ncols)
  /\ wrot' = [wrot EXCEPT ![k] = MatRotSet(wrot[k], trajectory[k][4])]
  /\ wpc' = [wpc EXCEPT ![k] = "dist"]
  /\ UNCHANGED <<args, pc, err, bounds, fl, fr, rl, rr, min_dists, mat_rot, i,
                 fl_, fr_, rl_, rr_>>

\* line 48 of iteration k raises
ParRaiseIndexError(k) ==
  /\ pc = "par"
  /\ wpc[k] = "rot"
  /\ IndexRaises(ncols)
  /\ pc' = "raised"
  /\ err' = "IndexError"
  /\ UNCHANGED <<args, bounds, fl, fr, rl, rr, min_dists, mat_rot, i,
                 fl_, fr_, rl_, rr_, wpc, wrot>>

\* lines 54-66 of iteration k
ParDist(k) ==
  /\ pc = "par"
  /\ wpc[k] = "dist"
  /\ \E it \in {Iteration(trajectory[k], wrot[k], bounds, fl, fr, rl, rr)} :
         /\ ~AminRaises(it.ds)
         /\ min_dists' = StoreAt(min_dists, k, amin(it.ds))
  /\ wpc' = [wpc EXCEPT ![k] = "done"]
  /\ UNCHANGED <<args, pc, err, bounds, fl, fr, rl, rr, mat_rot, i,
                 fl_, fr_, rl_, rr_, wrot>>

\* line 66 of iteration k raises
ParRaiseValueError(k) ==
  /\ pc = "par"
  /\ wpc[k] = "dist"
  /\ AminRaises(Iteration(trajectory[k], wrot[k], bounds, fl, fr, rl, rr).ds)
  /\ pc' = "raised"
  /\ err' = "ValueError"
  /\ UNCHANGED <<args, bounds, fl, fr, rl, rr, min_dists, mat_rot, i,
                 fl_, fr_, rl_, rr_, wpc, wrot>>

\* line 68, once every worker is done
ParReturn ==
  /\ pc = "par"
  /\ \A k \in 1 .. Len(trajectory) : wpc[k] = "done"
  /\ pc' = "returned"
  /\ UNCHANGED <<args, err, bounds, fl, fr, rl, rr, min_dists, mat_rot, i,
                 fl_, fr_, rl_, rr_, wpc, wrot>>

\* the workers: one per sample index
Workers == 1 .. Len(trajectory)

WorkerRot == \E k \in Workers : ParRot(k)
WorkerRaiseIndexError == \E k \in Workers : ParRaiseIndexError(k)
WorkerDist == \E k \in Workers : ParDist(k)
WorkerRaiseValueError == \E k \in Workers : ParRaiseValueError(k)

NextPar ==
  \/ ParSetup
  \/ WorkerRot
  \/ WorkerRaiseIndexError
  \/ WorkerDist
  \/ WorkerRaiseValueError
  \/ ParReturn

SpecPar == InitPar /\ [][NextPar]_vars

\* ------------------------------------------------------------------ claims

\* The reference the claims are stated against, written from the geometry
\* and not from the code: a quarter turn counter-clockwise, the four corner
\* offsets as a set, the cloud as a set.  Half units, distances as (2d)^2.

Rot90(v) == <<-v[2], v[1]>>

RECURSIVE RotQ(_, _)
RotQ(v, q) == IF q = 0 THEN v ELSE RotQ(Rot90(v), q - 1)

CornerOffsets(l, w) == {<<-w, l>>, <<w, l>>, <<-w, -l>>, <<w, -l>>}

WorldCorner(row, c) ==
  LET At(r) == <<2 * row[2] + r[1], 2 * row[3] + r[2]>>
  IN  At(RotQ(c, row[4] % 4))

Cloud(b1, b2) == {b1[k] : k \in 1 .. Len(b1)} \cup {b2[k] : k \in 1 .. Len(b2)}

SqDist(b, p) == (2 * b[1] - p[1]) * (2 * b[1] - p[1]) + (2 * b[2] - p[2]) * (2 * b[2] - p[2])

CornerDists(row, b1, b2, l, w) ==
  {SqDist(b, WorldCorner(row, c)) : b \in Cloud(b1, b2), c \in CornerOffsets(l, w)}

IsMin(m, S) == m \in S /\ \A v \in S : m <= v

\* the model's value of a distance whose square is n
Held(n) == 4 * n

ValidInput == Len(trajectory) > 0 /\ ncols >= 4 /\ Len(bound1) + Len(bound2) > 0

\* C1: for a non-empty trajectory and a non-empty cloud the call returns, and
\* entry i of the result is the minimum, over the four corners and over every
\* point of bound1 and bound2, of the distance between the point and the
\* corner rotated by the sample's heading and moved to the sample's position.
C1_MinOverCornersAndCloud ==
  ValidInput =>
    /\ pc # "raised"
    /\ pc = "returned" =>
         \A k \in 1 .. Len(trajectory) :
           IsMin(min_dists[k],
                 CornerDists(trajectory[k], bound1, bound2, l_veh_real, w_veh_real))

\* a returned call whose minimum is reached at the rear right corner only, on
\* a point of bound2
C1_Witness ==
  /\ pc = "returned"
  /\ Len(trajectory) = 1
  /\ Len(bound1) = 1 /\ Len(bound2) = 1
  /\ l_veh_real = 4 /\ w_veh_real = 2
  /\ min_dists[1] = SqDist(bound2[1], rr_)
  /\ \A p \in {fl_, fr_, rl_} : \A b \in {bound1[1], bound2[1]} :
       SqDist(b, p) > min_dists[1]
  /\ SqDist(bound1[1], rr_) > min_dists[1]

\* C2: the result has as many entries as the trajectory has samples, and the
\* entries are in the trajectory's order: after i iterations the first i
\* entries are the clearances of the first i samples and the others are still
\* the zeros of line 44; the call returns after the last sample.
C2_LengthAndOrder ==
  pc \in {"loop", "returned"} =>
    /\ Len(min_dists) = Len(trajectory)
    /\ pc = "returned" => i = Len(trajectory)
    /\ \A k \in 1 .. Len(trajectory) :
         IF k <= i
         THEN IsMin(min_dists[k],
                    CornerDists(trajectory[k], bound1, bound2, l_veh_real, w_veh_real))
         ELSE min_dists[k] = 0

C2_Witness ==
  /\ pc = "loop"
  /\ Len(trajectory) = 2
  /\ i = 1
  /\ min_dists[1] > 0
  /\ trajectory[1] # trajectory[2]

SizesUp == 0 .. 6

\* the distance the call reports for the one sample row
DistOf(row, l, w) == edge_check(<<row>>, ncols, bound1, bound2, l, w).out[1]

\* a boundary point in the vehicle's frame of the sample row: <<lateral,
\* longitudinal>>, half units
Local(row, b) ==
  RotQ(<<2 * b[1] - 2 * row[2], 2 * b[2] - 2 * row[3]>>, (4 - (row[4] % 4)) % 4)

Abs(n) == IF n < 0 THEN -n ELSE n

\* C4 as claimed, on positive sizes: a longer or a wider vehicle never has a
\* larger reported distance.
C4_Original ==
  (pc = "returned" /\ l_veh_real > 0 /\ w_veh_real > 0) =>
    \A k \in 1 .. Len(trajectory) :
      /\ \A l2 \in SizesUp :
           l2 >= l_veh_real => DistOf(trajectory[k], l2, w_veh_real) <= min_dists[k]
      /\ \A w2 \in SizesUp :
           w2 >= w_veh_real => DistOf(trajectory[k], l_veh_real, w2) <= min_dists[k]

\* C4 as amended: a longer vehicle (from a length >= 0) has no larger reported
\* distance when every boundary point lies, along the vehicle's longitudinal
\* axis, at or beyond the longer vehicle's half length; likewise a wider
\* vehicle and the lateral axis.
C4_MonotoneOutsideFootprint ==
  pc = "returned" =>
    \A k \in 1 .. Len(trajectory) :
      LET row == trajectory[k]
          cl == Cloud(bound1, bound2)
      IN  /\ \A l2 \in SizesUp :
               (/\ 0 <= l_veh_real /\ l_veh_real <= l2
                /\ \A b \in cl : Abs(Local(row, b)[2]) >= l2)
               => DistOf(row, l2, w_veh_real) <= min_dists[k]
          /\ \A w2 \in SizesUp :
               (/\ 0 <= w_veh_real /\ w_veh_real <= w2
                /\ \A b \in cl : Abs(Local(row, b)[1]) >= w2)
               => DistOf(row, l_veh_real, w2) <= min_dists[k]

\* a returned call whose distance strictly decreases for a longer vehicle
\* with every boundary point beyond it
C4_Witness ==
  /\ pc = "returned"
  /\ Len(trajectory) = 1
  /\ l_veh_real = 2 /\ w_veh_real = 4
  /\ \A b \in Cloud(bound1, bound2) : Abs(Local(trajectory[1], b)[2]) >= 4
  /\ DistOf(trajectory[1], 4, 2) < min_dists[1]

\* the sequence s reversed
Reverse(s) == [k \in 1 .. Len(s) |-> s[Len(s) + 1 - k]]

\* C5: the call with bound1 and bound2 exchanged, and the call with the
\* cloud's points in the opposite order, end as this call ends: the same
\* result, or the same exception.
C5_BoundarySymmetry ==
  pc \in {"returned", "raised"} =>
    LET EndsAs(other) == other.err = err /\ other.out = min_dists
    IN  /\ EndsAs(edge_check(trajectory, ncols, bound2, bound1, l_veh_real, w_veh_real))
        /\ EndsAs(edge_check(trajectory, ncols, Reverse(bound2), Reverse(bound1),
                             l_veh_real, w_veh_real))

C5_Witness ==
  /\ pc = "returned"
  /\ Len(trajectory) > 0
  /\ Len(bound1) = 1 /\ Len(bound2) = 1
  /\ bound1 # bound2
  /\ edge_check(trajectory, ncols, bound1, <<>>, l_veh_real, w_veh_real).out # min_dists
  /\ edge_check(trajectory, ncols, bound2, <<>>, l_veh_real, w_veh_real).out # min_dists

\* the trajectory with a quarter turn added to every heading
Turned(traj) == [k \in 1 .. Len(traj) |-> [traj[k] EXCEPT ![4] = @ + 1]]

\* the four edge positions lines 54-57 compute for a row
EdgeSet(row, l, w) ==
  LET Of(it) == {it.pfl, it.pfr, it.prl, it.prr}
  IN  Of(Iteration(row, zeros22, <<>>, Fl(l, w), Fr(l, w), Rl(l, w), Rr(l, w)))

\* C6: with length = width, a quarter turn added to a sample's heading leaves
\* the set of its four edge positions and its reported distance unchanged.
C6_SquareQuarterTurn ==
  (pc = "returned" /\ l_veh_real = w_veh_real) =>
    /\ \A k \in 1 .. Len(trajectory) :
         EdgeSet(Turned(trajectory)[k], l_veh_real, w_veh_real)
           = EdgeSet(trajectory[k], l_veh_real, w_veh_real)
    /\ edge_check(Turned(trajectory), ncols, bound1, bound2, l_veh_real, w_veh_real).out
         = min_dists

\* a square vehicle whose edge positions are four distinct points, each moved
\* by the quarter turn
C6_Witness ==
  /\ pc = "returned"
  /\ l_veh_real = w_veh_real /\ l_veh_real = 2
  /\ Len(trajectory) = 1
  /\ min_dists[1] > 0
  /\ EdgePos(Turned(trajectory)[1], MatRotSet(zeros22, trajectory[1][4] + 1), fl) # fl_
  /\ Cardinality(EdgeSet(trajectory[1], l_veh_real, w_veh_real)) = 4

\* C7: every value of the returned sequence is >= 0, whatever the sizes
\* (zero and negative included).
C7_NonNegative ==
  pc = "returned" => \A k \in 1 .. Len(min_dists) : min_dists[k] >= 0

C7_Witness ==
  /\ pc = "returned"
  /\ l_veh_real < 0 /\ w_veh_real < 0
  /\ Len(trajectory) = 2
  /\ min_dists[1] > 0 /\ min_dists[2] > 0

\* the scenario's call: length 4, width 2, one sample at (0, 0),
\* boundary1 = [(0, 5)], boundary2 empty
Scenario(psi) ==
  /\ l_veh_real = 4 /\ w_veh_real = 2
  /\ ncols = 4
  /\ Len(trajectory) = 1
  /\ trajectory[1][2] = 0 /\ trajectory[1][3] = 0 /\ trajectory[1][4] = psi
  /\ bound1 = <<<<0, 5>>>>
  /\ bound2 = <<>>

\* the model's value of the point (x, y)
HeldPoint(x, y) == <<2 * x, 2 * y>>

\* C8: in the scenario with heading 0 the call succeeds, the front corners
\* are (-1, 2) and (1, 2), the rear corners (-1, -2) and (1, -2), and the
\* distance is sqrt(10); with heading pi/2 the corners are (-2, -1), (-2, 1),
\* (2, -1), (2, 1) and the distance is the minimum over them, sqrt(20).
C8_Scenario ==
  /\ (Scenario(0) \/ Scenario(1)) => pc # "raised"
  /\ (Scenario(0) /\ pc = "returned") =>
       /\ fl_ = HeldPoint(-1, 2) /\ fr_ = HeldPoint(1, 2)
       /\ rl_ = HeldPoint(-1, -2) /\ rr_ = HeldPoint(1, -2)
       /\ min_dists = <<Held(10)>>
  /\ (Scenario(1) /\ pc = "returned") =>
       /\ fl_ = HeldPoint(-2, -1) /\ fr_ = HeldPoint(-2, 1)
       /\ rl_ = HeldPoint(2, -1) /\ rr_ = HeldPoint(2, 1)
       /\ IsMin(min_dists[1],
                {SqDist(<<0, 5>>, c) : c \in {HeldPoint(-2, -1), HeldPoint(-2, 1),
                                              HeldPoint(2, -1), HeldPoint(2, 1)}})
       /\ min_dists = <<Held(20)>>

C8_Witness == Scenario(0) /\ pc = "returned"

C8_WitnessQuarterTurn == Scenario(1) /\ pc = "returned"

\* C9: with length 0 and width 0 the call raises nothing on an otherwise
\* valid input, the four edge positions of every iteration are the sample's
\* position, and each reported distance is the minimum distance of the
\* sample's position to the cloud.
C9_ZeroSize ==
  (l_veh_real = 0 /\ w_veh_real = 0) =>
    /\ ValidInput => pc # "raised"
    /\ (pc \in {"loop", "returned"} /\ i >= 1) =>
         LET at == HeldPoint(trajectory[i][2], trajectory[i][3])
         IN  fl_ = at /\ fr_ = at /\ rl_ = at /\ rr_ = at
    /\ pc = "returned" =>
         \A k \in 1 .. Len(trajectory) :
           IsMin(min_dists[k],
                 {SqDist(b, HeldPoint(trajectory[k][2], trajectory[k][3])) :
                    b \in Cloud(bound1, bound2)})

C9_Witness ==
  /\ pc = "returned"
  /\ l_veh_real = 0 /\ w_veh_real = 0
  /\ Len(trajectory) = 1
  /\ trajectory[1][2] # 0
  /\ trajectory[1][4] = 3
  /\ Len(bound1) + Len(bound2) = 2
  /\ min_dists[1] > 0

\* C10: with one worker per sample index, each with a rotation matrix of its
\* own, in any interleaving: the boundary cloud and the corner offsets stay
\* what lines 35-41 made them, a worker writes its own output slot only (a slot
\* is the sequential loop's value once its worker is done and the zero of
\* line 44 before), and the run ends as the sequential loop ends, with the same
\* result or the same exception.
C10_AnyOrder ==
  pc \in {"par", "returned", "raised"} =>
    LET EndsAs(seq) ==
          /\ \A k \in Workers :
               min_dists[k] = (IF wpc[k] = "done" THEN seq.out[k] ELSE 0)
          /\ pc = "returned" => seq.err = "" /\ seq.out = min_dists
          /\ pc = "raised" => seq.err = err
    IN  /\ bounds = bound1 \o bound2
        /\ CornerOffsets(l_veh_real, w_veh_real) = {fl, fr, rl, rr}
        /\ EndsAs(edge_check(trajectory, ncols, bound1, bound2,
                             l_veh_real, w_veh_real))

\* the second worker is done before the first has started, on samples of
\* different headings
C10_Witness ==
  /\ pc = "par"
  /\ ncols = 4
  /\ Len(trajectory) = 2
  /\ trajectory[1][4] # trajectory[2][4]
  /\ wpc = <<"rot", "done">>
  /\ min_dists[2] > 0

====
